---- MODULE Spec2Model ----
(***************************************************************************)
(* Diagnostics ingestion and analysis engine of miguelcsx/builds:          *)
(*   - kernel.Parser   (internal/parsers/remarks/parser.go, second half)   *)
(*   - remarks.Parser  (internal/parsers/remarks/parser.go, first half)    *)
(*   - performance.Analyzer (unnamed/part_003)                             *)
(*   - storeBuildData  (cmd/builds/main.go)                                *)
(*                                                                         *)
(* Strings that the code transforms character by character (the YAML type  *)
(* tag, CompilerRemark.Type) are sequences of one-character strings; all   *)
(* other strings are TLA+ strings.  A nil pointer / absent optional is the *)
(* empty sequence, a present one a one-element sequence.  float64 values   *)
(* are records [k, n, d]: k = "fin" is the rational n/d (d > 0), k = "inf" *)
(* is +Inf (n > 0) or -Inf (n < 0), k = "nan" is NaN.  k = "panic" stands   *)
(* for the run-time panic of an integer division by zero, which no float64 *)
(* operation produces.                                                     *)
(***************************************************************************)
EXTENDS Integers, Sequences, FiniteSets, TLC

VARIABLES
    \* kernel.Parser and its Parse() call
    kInput,        \* lines the bufio.Scanner will deliver
    kReadErr,      \* TRUE iff the reader fails after the last line
    kPos,          \* number of lines already scanned
    kRemarks,      \* local `remarks` of Parse
    currentFunc,   \* Parser.currentFunc
    metrics,       \* Parser.metrics
    kpc,           \* "scan" | "done"
    kErr,          \* error returned by Parse: "nil" | "read" | "toolong"
    \* remarks.Parser and its Parse() call
    dReadable,     \* TRUE iff os.ReadFile succeeds
    dStream,       \* the documents of the file
    dPos,          \* documents already consumed by the decoder
    dFailed,       \* yaml parser error flag (sticky)
    dNode,         \* result of the last decoder.Decode: <<>> or <<doc>>
    dDecErr,       \* error of the last decoder.Decode: "nil" | "EOF" | "yaml"
    dRemarks,      \* local `remarks` of Parse
    dpc,           \* "read" | "decode" | "handle" | "done"
    dErr,          \* error returned by Parse: "nil" | "read"
    \* performance.Analyzer
    build,         \* the models.Build handed to NewAnalyzer
    result,        \* <<>> or <<AnalysisResult>>
    apc,           \* "collect" | "analyze" | "done"
    aErr,          \* outcome of Analyze: "none" (not run) | "nil" | "panic"
    \* generateRecommendations applied on its own
    gBottlenecks,  \* argument
    gRecs,         \* <<>> or <<returned list>>
    \* two kernel.Parser instances, each running Parse() on its own reader;
    \* every variable is a function of the instance
    cInput,        \* lines the instance's scanner will deliver
    cPos,          \* number of lines it has scanned
    cRemarks,      \* local `remarks` of its Parse
    cFunc,         \* its Parser.currentFunc
    cMetrics,      \* its Parser.metrics
    cpc,           \* "scan" | "done"
    cStamps,       \* per instance: the Timestamp of each remark of cRemarks
    cClock,        \* the wall clock time.Now() reads
    \* the collectors of executeBuild on their shared BuildContext
    osArgs,        \* the compiler arguments of the command line
    bcArgs,        \* BuildContext.Args
    colInit,       \* collectors whose Initialize has returned
    colDone,       \* collectors whose Collect has returned
    yamlPath,      \* remarks.Collector.yamlPath: "" or the temporary path
    yamlExists,    \* TRUE iff a file exists at the temporary path
    rpc,           \* remarks.Collector.Collect: "idle" | "ran" | "returned"
    rcErr,         \* its error: "none" | "nil" | "not created" | "parse"
    rmErr,         \* the error of its Cleanup: "none" | "nil" | "failed"
    kcErr,         \* kernel.Collector.Collect: "none" | "nil" | "not enabled" | "run"
    mode           \* which component this behaviour exercises

kvars == <<kInput, kReadErr, kPos, kRemarks, currentFunc, metrics, kpc, kErr>>
dvars == <<dReadable, dStream, dPos, dFailed, dNode, dDecErr, dRemarks, dpc, dErr>>
avars == <<build, result, apc, aErr>>
gvars == <<gBottlenecks, gRecs>>
cvars == <<cInput, cPos, cRemarks, cFunc, cMetrics, cpc, cStamps, cClock>>
xvars == <<osArgs, bcArgs, colInit, colDone, yamlPath, yamlExists, rpc, rcErr, rmErr,
           kcErr>>
vars == <<kvars, dvars, avars, gvars, cvars, xvars, mode>>

(***************************************************************************)
(* Bounds                                                                  *)
(***************************************************************************)
MaxLines == 3
MaxDocs == 3
MaxRun == 11
MaxConcLines == 2
MaxClock == 1
MaxArgs == 3
MaxUserArgs == 2

(***************************************************************************)
(* Generic helpers                                                         *)
(***************************************************************************)
RECURSIVE SeqsUpTo(_, _)
SeqsUpTo(S, n) ==
    IF n = 0 THEN {<<>>}
    ELSE LET shorter == SeqsUpTo(S, n - 1)
         IN shorter \cup {Append(s, x) : s \in {t \in shorter : Len(t) = n - 1}, x \in S}

Repeat(x, n) == [i \in 1..n |-> x]

EmptyMap == [k \in {} |-> 0]
MapPut(m, k, v) == [x \in (DOMAIN m) \cup {k} |-> IF x = k THEN v ELSE m[x]]

Perms(S) == {p \in [1..Cardinality(S) -> S] : \A i, j \in 1..Cardinality(S) : p[i] = p[j] => i = j}

CountType(rs, ty) == Cardinality({i \in 1..Len(rs) : rs[i].Type = ty})

\* Character strings
S_Passed == <<"P", "a", "s", "s", "e", "d">>
S_Missed == <<"M", "i", "s", "s", "e", "d">>
S_Analysis == <<"A", "n", "a", "l", "y", "s", "i", "s">>
S_passed == <<"p", "a", "s", "s", "e", "d">>
S_missed == <<"m", "i", "s", "s", "e", "d">>
S_analysis == <<"a", "n", "a", "l", "y", "s", "i", "s">>
S_MISSED == <<"M", "I", "S", "S", "E", "D">>
S_aNALYSIS == <<"a", "N", "A", "L", "Y", "S", "I", "S">>
S_Failure == <<"F", "a", "i", "l", "u", "r", "e">>
S_kernel == <<"k", "e", "r", "n", "e", "l">>
S_metric == <<"m", "e", "t", "r", "i", "c">>
S_mapTag == <<"!", "!", "m", "a", "p">>
Bang(s) == <<"!">> \o s

UpperChars == <<"A", "B", "C", "D", "E", "F", "G", "H", "I", "J", "K", "L", "M",
                "N", "O", "P", "Q", "R", "S", "T", "U", "V", "W", "X", "Y", "Z">>
LowerChars == <<"a", "b", "c", "d", "e", "f", "g", "h", "i", "j", "k", "l", "m",
                "n", "o", "p", "q", "r", "s", "t", "u", "v", "w", "x", "y", "z">>

ToLowerKeepCase(s) == s

ToLower(s) ==
    [i \in 1..Len(s) |->
        IF \E j \in 1..26 : UpperChars[j] = s[i]
        THEN LowerChars[CHOOSE j \in 1..26 : UpperChars[j] = s[i]]
        ELSE s[i]]

TrimPrefixBang(s) == IF Len(s) >= 1 /\ s[1] = "!" THEN Tail(s) ELSE s

\* A Go int / int64 is four 16-bit limbs, least significant first; an int32
\* is an integer.
LimbBase == 65536
Zero64 == <<0, 0, 0, 0>>
MaxInt64 == <<65535, 65535, 65535, 32767>>

\* 10 * x + c on limbs; the result has one limb more (the carry out)
RECURSIVE Times10Plus(_, _)
Times10Plus(x, c) ==
    IF x = <<>> THEN <<c>>
    ELSE LET t == x[1] * 10 + c
         IN <<t % LimbBase>> \o Times10Plus(Tail(x), t \div LimbBase)

\* the digits accumulated as an int64, and whether the value left its range
RECURSIVE AtoiAcc(_)
AtoiAcc(ds) ==
    IF Len(ds) = 0 THEN [v |-> Zero64, range |-> FALSE]
    ELSE LET prev == AtoiAcc(SubSeq(ds, 1, Len(ds) - 1))
             r == Times10Plus(prev.v, ds[Len(ds)])
         IN IF prev.range \/ r[5] > 0 \/ r[4] >= 32768
            THEN [v |-> MaxInt64, range |-> TRUE]
            ELSE [v |-> SubSeq(r, 1, 4), range |-> FALSE]

\* strconv.Atoi on a decimal numeral given as its digits (error ignored):
\* out of range it yields the largest int
parseInt(ds) == AtoiAcc(ds).v

\* the conversion int32(x): the low 32 bits, as a signed number
Int32(x) ==
    IF x[2] >= 32768 THEN (x[2] - LimbBase) * LimbBase + x[1]
    ELSE x[2] * LimbBase + x[1]

(***************************************************************************)
(* models.CompilerRemark and friends                                       *)
(***************************************************************************)
ZeroLocation == [File |-> "", Line |-> 0, Column |-> 0, Function |-> "", Artifact |-> FALSE]

NewKernelInfo ==
    [Metrics |-> EmptyMap, Callees |-> <<>>, MemoryAccesses |-> <<>>,
     DirectCalls |-> 0, IndirectCalls |-> 0, FlatAddressSpaceAccesses |-> 0,
     AllocasCount |-> 0, AllocasStaticSize |-> Zero64]

\* models.RemarkArgs (the scalar fields and the string list)
ZeroArgs ==
    [Strings |-> <<>>, Callee |-> "", Caller |-> "", Type |-> "", Line |-> "",
     Column |-> "", Cost |-> "", Reason |-> ""]

ZeroRemark ==
    [Type |-> <<>>, Pass |-> "", Status |-> "", Message |-> "", Function |-> "",
     Location |-> ZeroLocation, Args |-> ZeroArgs, KernelInfo |-> <<>>,
     Metadata |-> EmptyMap]

(***************************************************************************)
(* kernel.Parser                                                           *)
(***************************************************************************)
\* A line of the stream: `pre` says whether it starts with "remark: ";
\* `loc` is the part locationRegex matches (absent: <<>>); `body` is the
\* rest after TrimSpace, classified by the first of metricsRegex, callRegex
\* and memoryRegex that matches it; `long` says the line has at least
\* bufio.MaxScanTokenSize bytes, which the default bufio.Scanner of Parse
\* cannot hold (Scan returns false and Err is bufio.ErrTooLong).
KLoc(file, line, col, name) == <<[file |-> file, line |-> line, col |-> col, name |-> name]>>
KBody(kind, name, digits, a2, a3, text) ==
    [kind |-> kind, name |-> name, digits |-> digits, a2 |-> a2, a3 |-> a3, text |-> text]
KMetric(name, digits, text) == KBody("metric", name, digits, "", "", text)
KCall(callee) == KBody("call", callee, <<>>, "", "", "direct call, callee is '" \o callee \o "'")
KMem(ty, instr, space) ==
    KBody("mem", ty, <<>>, instr, space,
          "'" \o ty \o "' instruction ('" \o instr \o "') accesses memory in "
              \o space \o " address space")
KText(t) == KBody("text", "", <<>>, "", "", t)
KLine(pre, loc, body) == [pre |-> pre, loc |-> loc, body |-> body, long |-> FALSE]
KLongLine(pre, loc, body) == [pre |-> pre, loc |-> loc, body |-> body, long |-> TRUE]

KLines ==
    { KLine(TRUE, <<>>, KMetric("DirectCalls", <<3>>, "DirectCalls = 3")),
      KLine(TRUE, <<>>, KMetric("DirectCalls", <<5>>, "DirectCalls = 5")),
      KLine(TRUE, <<>>, KMetric("NumStackBytes", <<1, 6>>, "NumStackBytes = 16")),
      KLine(TRUE, <<>>, KMetric("AllocasCount", <<2, 1, 4, 7, 4, 8, 3, 6, 4, 8>>,
                                "AllocasCount = 2147483648")),
      KLine(TRUE, <<>>, KMetric("AllocasStaticSize", <<4, 2, 9, 4, 9, 6, 7, 2, 9, 6>>,
                                "AllocasStaticSize = 4294967296")),
      KLine(TRUE, <<>>, KMetric("SpillBytes", Repeat(9, 20),
                                "SpillBytes = 99999999999999999999")),
      KLine(TRUE, KLoc("k.c", <<1, 2>>, <<7>>, "kern"), KCall("f")),
      KLine(TRUE, <<>>, KCall("f")),
      KLine(TRUE, <<>>, KCall("g")),
      KLine(TRUE, <<>>, KMem("load", "x", "flat")),
      KLine(TRUE, <<>>, KText("note")),
      KLine(FALSE, <<>>, KMetric("DirectCalls", <<9>>, "DirectCalls = 9")),
      KLine(FALSE, <<>>, KText("warning")),
      KLongLine(TRUE, <<>>, KText("note padded beyond the scanner buffer")),
      KLongLine(FALSE, <<>>, KText("banner padded beyond the scanner buffer")) }

KStreams == SeqsUpTo(KLines, MaxLines)

\* parseLine: the remark it returns and the parser fields it assigns
parseLineRemark(line) ==
    LET base == [ZeroRemark EXCEPT !.Type = S_kernel, !.Pass = "kernel-info",
                                   !.Status = "analysis"]
        located ==
            IF line.loc # <<>>
            THEN [base EXCEPT !.Location =
                    [File |-> line.loc[1].file,
                     Line |-> Int32(parseInt(line.loc[1].line)),
                     Column |-> Int32(parseInt(line.loc[1].col)),
                     Function |-> "artificial function '" \o line.loc[1].name,
                     Artifact |-> TRUE]]
            ELSE base
        withMsg == [located EXCEPT !.Message = line.body.text]
        b == line.body
        value == parseInt(b.digits)
        ki0 == NewKernelInfo
        ki ==
            CASE b.kind = "metric" ->
                    LET m == [ki0 EXCEPT !.Metrics = MapPut(@, b.name, value)]
                    IN CASE b.name = "DirectCalls" -> [m EXCEPT !.DirectCalls = Int32(value)]
                         [] b.name = "IndirectCalls" -> [m EXCEPT !.IndirectCalls = Int32(value)]
                         [] b.name = "FlatAddressSpaceAccesses" ->
                                [m EXCEPT !.FlatAddressSpaceAccesses = Int32(value)]
                         [] b.name = "AllocasCount" -> [m EXCEPT !.AllocasCount = Int32(value)]
                         [] b.name = "AllocasStaticSize" -> [m EXCEPT !.AllocasStaticSize = value]
                         [] OTHER -> m
              [] b.kind = "call" ->
                    [ki0 EXCEPT !.DirectCalls = @ + 1, !.Callees = Append(@, b.name)]
              [] b.kind = "mem" ->
                    [ki0 EXCEPT !.MemoryAccesses =
                                    Append(@, [Type |-> b.name, Instruction |-> b.a2,
                                               AddressSpace |-> b.a3]),
                                !.FlatAddressSpaceAccesses = @ + 1]
              [] OTHER -> ki0
    IN [withMsg EXCEPT !.KernelInfo = <<ki>>]

parseLineFunc(line, cur) ==
    IF line.loc # <<>> THEN "artificial function '" \o line.loc[1].name ELSE cur

\* parseLine never assigns p.metrics
parseLineMetrics(line, m) == m

\* the error parseLine returns: its only return statement returns nil
parseLineErr(line) == FALSE

\* strings.HasPrefix(line, "remark: ")
HasRemarkPrefix(line) == line.pre

PrependRemark(rs, r) == <<r>> \o rs

\* remarks = append(remarks, remark)
AppendRemark(rs, r) == Append(rs, r)

\* the synthetic remark Parse appends for one accumulator entry
MetricRemark(name, value) ==
    [ZeroRemark EXCEPT !.Type = S_metric, !.Pass = "kernel-info", !.Message = name,
                       !.Metadata = MapPut(EmptyMap, "value", value)]

KInit ==
    /\ kInput \in KStreams
    /\ kReadErr \in BOOLEAN
    /\ kPos = 0
    /\ kRemarks = <<>>
    /\ currentFunc = ""
    /\ metrics = EmptyMap
    /\ kpc = "scan"
    /\ kErr = "nil"

\* scanner.Scan() returns false: end of input, read error, or a line the
\* scanner's buffer cannot hold
ScanStops == IF kPos = Len(kInput) THEN TRUE ELSE kInput[kPos + 1].long

\* one iteration of `for scanner.Scan()`
KScanLine ==
    /\ mode = "kernel"
    /\ kpc = "scan"
    /\ ~ScanStops
    /\ LET line == kInput[kPos + 1]
       IN /\ kPos' = kPos + 1
          /\ IF ~HasRemarkPrefix(line)
             THEN UNCHANGED <<kRemarks, currentFunc, metrics>>
             ELSE /\ kRemarks' = IF parseLineErr(line) THEN kRemarks
                                 ELSE AppendRemark(kRemarks, parseLineRemark(line))
                  /\ currentFunc' = parseLineFunc(line, currentFunc)
                  /\ metrics' = parseLineMetrics(line, metrics)
    /\ UNCHANGED <<kInput, kReadErr, kpc, kErr, dvars, avars, gvars, cvars, xvars, mode>>

\* scanner.Scan() returns false: the range over p.metrics (in the map's
\* unspecified iteration order) and the return of scanner.Err()
KFinish ==
    /\ mode = "kernel"
    /\ kpc = "scan"
    /\ ScanStops
    /\ \E order \in Perms(DOMAIN metrics) :
          kRemarks' = kRemarks \o
              [i \in 1..Len(order) |-> MetricRemark(order[i], metrics[order[i]])]
    /\ kpc' = "done"
    /\ kErr' = IF kPos < Len(kInput) THEN "toolong"
               ELSE IF kReadErr THEN "read" ELSE "nil"
    /\ UNCHANGED <<kInput, kReadErr, kPos, currentFunc, metrics, dvars, avars, gvars, cvars, xvars, mode>>

KNext == KScanLine \/ KFinish

KIdle ==
    /\ kInput = <<>>
    /\ kReadErr = FALSE
    /\ kPos = 0
    /\ kRemarks = <<>>
    /\ currentFunc = ""
    /\ metrics = EmptyMap
    /\ kpc = "done"
    /\ kErr = "nil"

(***************************************************************************)
(* remarks.Parser (document stream)                                        *)
(***************************************************************************)
\* `resolved` is the tag the YAML parser gives a root without an explicit
\* tag. A document of the file: a mapping (with or without an explicit type
\* tag; `typed` is FALSE when a key holds a value of another type than the
\* YamlRemark field), a null scalar (an empty document, ~, null), another
\* scalar, or text the YAML scanner rejects.
\* `Args` is the record's argument list as written: one entry per list
\* item, a key the item does not give being the empty string.
DocMapArgs(tag, pass, name, fn, args) ==
    [kind |-> "map", typed |-> TRUE, tag |-> tag, resolved |-> S_mapTag, Pass |-> pass,
     Name |-> name, Function |-> fn, Args |-> args]
DocMap(tag, pass, name, fn) == DocMapArgs(tag, pass, name, fn, <<>>)
\* a mapping such as `Args: x`: the decoder reports a type error and leaves
\* the mistyped field at its zero value
DocMistyped ==
    [kind |-> "map", typed |-> FALSE, tag |-> Bang(S_Passed), resolved |-> S_mapTag,
     Pass |-> "inline",
     Name |-> "Inlined", Function |-> "main", Args |-> <<>>]
DocNull ==
    [kind |-> "null", typed |-> TRUE, tag |-> <<>>,
     resolved |-> <<"!", "!", "n", "u", "l", "l">>, Pass |-> "", Name |-> "",
     Function |-> "", Args |-> <<>>]
\* a document that is one plain scalar, such as `hello` (resolved tag !!str)
\* or `42` (!!int)
DocScalar(resolved) ==
    [kind |-> "scalar", typed |-> TRUE, tag |-> <<>>, resolved |-> resolved, Pass |-> "", Name |-> "", Function |-> "",
     Args |-> <<>>]
DocCorrupt ==
    [kind |-> "corrupt", typed |-> TRUE, tag |-> <<>>, resolved |-> <<>>, Pass |-> "", Name |-> "", Function |-> "",
     Args |-> <<>>]

\* one item of an argument list as written in the file
ArgEntry(str, callee, caller, ty, line, col, cost, reason) ==
    [String |-> str, Callee |-> callee, Caller |-> caller, Type |-> ty,
     Line |-> line, Column |-> col, Cost |-> cost, Reason |-> reason]

\* the item decoded into a YamlArg: the struct has no Cost and no Reason
\* field, so these keys are ignored
YamlArg(e) ==
    [String |-> e.String, Callee |-> e.Callee, Caller |-> e.Caller, Type |-> e.Type,
     Line |-> e.Line, Column |-> e.Column]

YamlArgs(doc) == [i \in 1..Len(doc.Args) |-> YamlArg(doc.Args[i])]

DocRecords ==
    { DocMap(Bang(S_Passed), "inline", "Inlined", "main"),
      DocMap(Bang(S_Missed), "loop-vectorize", "MissedDetails", "f"),
      DocMap(Bang(S_Analysis), "asm-printer", "InstructionCount", "f"),
      DocMap(Bang(S_MISSED), "inline", "NoDefinition", "g"),
      DocMap(Bang(S_aNALYSIS), "kernel-info", "Note", "k"),
      DocMap(Bang(S_Failure), "regalloc", "SpillFailed", "s"),
      DocMap(<<>>, "inline", "Inlined", "h"),
      DocMistyped,
      DocNull,
      DocScalar(<<"!", "!", "s", "t", "r">>),
      DocScalar(<<"!", "!", "i", "n", "t">>),
      DocCorrupt }

DocStreams == SeqsUpTo(DocRecords, MaxDocs)

HasTag(doc) == doc.kind = "map" /\ doc.tag # <<>> /\ doc.tag # <<"!">>

\* yaml.Node.Tag of the root node: the explicit tag, or the resolved
\* default tag of the node when the document gives none
NodeTag(doc) == IF HasTag(doc) THEN doc.tag ELSE doc.resolved

\* root.Decode(&yamlRemark) returns nil: a mapping whose values fit the
\* fields, or a null, which leaves the struct at its zero value; any other
\* scalar and a mistyped mapping give a type error
RootDecodes(doc) == (doc.kind = "map" /\ doc.typed) \/ doc.kind = "null"

remarkType(doc) == TrimPrefixBang(NodeTag(doc))

StatusOfType(ty) ==
    CASE ty = S_passed -> "passed"
      [] ty = S_missed -> "missed"
      [] ty = S_analysis -> "analysis"
      [] OTHER -> "info"

\* strings.Join(parts, " ")
RECURSIVE JoinSpace(_)
JoinSpace(parts) ==
    IF Len(parts) = 0 THEN ""
    ELSE IF Len(parts) = 1 THEN parts[1]
    ELSE JoinSpace(SubSeq(parts, 1, Len(parts) - 1)) \o " " \o parts[Len(parts)]

\* the parts buildMessage appends for one argument
ArgParts(a) ==
    (IF a.String # "" THEN <<a.String>> ELSE <<>>)
    \o (IF a.Callee # "" /\ a.Caller # "" THEN <<a.Callee \o " -> " \o a.Caller>> ELSE <<>>)
    \o (IF a.Type # "" THEN <<"type: " \o a.Type>> ELSE <<>>)

RECURSIVE AllArgParts(_)
AllArgParts(args) ==
    IF args = <<>> THEN <<>>
    ELSE AllArgParts(SubSeq(args, 1, Len(args) - 1)) \o ArgParts(args[Len(args)])

buildMessage(doc) == JoinSpace(<<doc.Pass \o ": " \o doc.Name>> \o AllArgParts(YamlArgs(doc)))

MergeArgPrependString(acc, a) ==
    [acc EXCEPT !.Strings = IF a.String # "" THEN <<a.String>> \o @ ELSE @,
                !.Callee = IF a.Callee # "" THEN a.Callee ELSE @,
                !.Caller = IF a.Caller # "" THEN a.Caller ELSE @,
                !.Type = IF a.Type # "" THEN a.Type ELSE @,
                !.Line = IF a.Line # "" THEN a.Line ELSE @,
                !.Column = IF a.Column # "" THEN a.Column ELSE @]

\* one iteration of `for _, arg := range yamlRemark.Args`
MergeArg(acc, a) ==
    [acc EXCEPT !.Strings = IF a.String # "" THEN Append(@, a.String) ELSE @,
                !.Callee = IF a.Callee # "" THEN a.Callee ELSE @,
                !.Caller = IF a.Caller # "" THEN a.Caller ELSE @,
                !.Type = IF a.Type # "" THEN a.Type ELSE @,
                !.Line = IF a.Line # "" THEN a.Line ELSE @,
                !.Column = IF a.Column # "" THEN a.Column ELSE @]

RECURSIVE MergeArgs(_)
MergeArgs(args) ==
    IF args = <<>> THEN ZeroArgs
    ELSE MergeArg(MergeArgs(SubSeq(args, 1, Len(args) - 1)), args[Len(args)])

\* the remark one loop iteration appends for a decoded record
RemarkOf(doc) ==
    LET ty == ToLower(remarkType(doc))
    IN [ZeroRemark EXCEPT !.Type = ty, !.Pass = doc.Pass, !.Message = buildMessage(doc),
                          !.Function = doc.Function, !.Status = StatusOfType(ty),
                          !.Args = MergeArgs(YamlArgs(doc))]

\* the iteration ends in `continue` before the append
SkipsRecord(doc) == ~RootDecodes(doc) \/ remarkType(doc) = <<>>

DInit ==
    /\ dReadable \in BOOLEAN
    /\ dStream \in DocStreams
    /\ dPos = 0
    /\ dFailed = FALSE
    /\ dNode = <<>>
    /\ dDecErr = "nil"
    /\ dRemarks = <<>>
    /\ dpc = "read"
    /\ dErr = "nil"

\* records with an argument list
ArgEntries ==
    { ArgEntry("", "f", "", "", "", "", "", ""),
      ArgEntry(" inlined into ", "", "", "", "", "", "", ""),
      ArgEntry(" with cost ", "", "", "", "", "", "", ""),
      ArgEntry("", "", "main", "", "", "", "", ""),
      ArgEntry("", "g", "h", "", "", "", "", ""),
      ArgEntry("", "", "", "i32", "3", "4", "", ""),
      ArgEntry("", "", "", "i64", "", "", "", ""),
      ArgEntry("", "", "", "", "", "", "5", "hot") }

ArgRecords ==
    { DocMapArgs(Bang(S_Passed), "inline", "Inlined", "main", args) :
        args \in SeqsUpTo(ArgEntries, MaxArgs) }

ArgStreams == {<<d>> : d \in ArgRecords} \cup {<<d, DocCorrupt>> : d \in ArgRecords}

DInitArgs ==
    /\ dReadable \in BOOLEAN
    /\ dStream \in ArgStreams
    /\ dPos = 0
    /\ dFailed = FALSE
    /\ dNode = <<>>
    /\ dDecErr = "nil"
    /\ dRemarks = <<>>
    /\ dpc = "read"
    /\ dErr = "nil"

DIdle ==
    /\ dReadable = TRUE
    /\ dStream = <<>>
    /\ dPos = 0
    /\ dFailed = FALSE
    /\ dNode = <<>>
    /\ dDecErr = "nil"
    /\ dRemarks = <<>>
    /\ dpc = "done"
    /\ dErr = "nil"

\* os.ReadFile and its error return
DReadFile ==
    /\ mode = "doc"
    /\ dpc = "read"
    /\ IF dReadable
       THEN dpc' = "decode" /\ dErr' = dErr
       ELSE dpc' = "done" /\ dErr' = "read"
    /\ UNCHANGED <<dReadable, dStream, dPos, dFailed, dNode, dDecErr, dRemarks,
                   kvars, avars, gvars, cvars, xvars, mode>>

\* err := decoder.Decode(&node).  Once the YAML parser has reported an
\* error it reports it again on every later call.
DDecode ==
    /\ mode = "doc"
    /\ dpc = "decode"
    /\ IF dFailed
       THEN /\ dDecErr' = "yaml"
            /\ dNode' = <<>>
            /\ UNCHANGED <<dPos, dFailed>>
       ELSE IF dPos = Len(dStream)
       THEN /\ dDecErr' = "EOF"
            /\ dNode' = <<>>
            /\ UNCHANGED <<dPos, dFailed>>
       ELSE IF dStream[dPos + 1].kind = "corrupt"
       THEN /\ dDecErr' = "yaml"
            /\ dNode' = <<>>
            /\ dFailed' = TRUE
            /\ UNCHANGED dPos
       ELSE /\ dDecErr' = "nil"
            /\ dNode' = <<dStream[dPos + 1]>>
            /\ dPos' = dPos + 1
            /\ UNCHANGED dFailed
    /\ dpc' = "handle"
    /\ UNCHANGED <<dReadable, dStream, dRemarks, dErr, kvars, avars, gvars, cvars, xvars, mode>>

\* if err == io.EOF { break } ... return remarks, nil
DEndOfStream ==
    /\ mode = "doc"
    /\ dpc = "handle"
    /\ dDecErr = "EOF"
    /\ dpc' = "done"
    /\ dErr' = "nil"
    /\ UNCHANGED <<dReadable, dStream, dPos, dFailed, dNode, dDecErr, dRemarks,
                   kvars, avars, gvars, cvars, xvars, mode>>

\* if err != nil { continue }
DSkipDecodeError ==
    /\ mode = "doc"
    /\ dpc = "handle"
    /\ dDecErr = "yaml"
    /\ dpc' = "decode"
    /\ UNCHANGED <<dReadable, dStream, dPos, dFailed, dNode, dDecErr, dRemarks, dErr,
                   kvars, avars, gvars, cvars, xvars, mode>>

\* the rest of the loop body for a decoded node
DRecord ==
    /\ mode = "doc"
    /\ dpc = "handle"
    /\ dDecErr = "nil"
    /\ dRemarks' = IF SkipsRecord(dNode[1]) THEN dRemarks
                   ELSE AppendRemark(dRemarks, RemarkOf(dNode[1]))
    /\ dpc' = "decode"
    /\ UNCHANGED <<dReadable, dStream, dPos, dFailed, dNode, dDecErr, dErr,
                   kvars, avars, gvars, cvars, xvars, mode>>

DNext == DReadFile \/ DDecode \/ DEndOfStream \/ DSkipDecodeError \/ DRecord

\* remarks.Parser.Parse on a readable file without scanner errors, as a function
RECURSIVE ParseDocs(_)
ParseDocs(docs) ==
    IF docs = <<>> THEN <<>>
    ELSE LET front == ParseDocs(SubSeq(docs, 1, Len(docs) - 1))
             doc == docs[Len(docs)]
         IN IF SkipsRecord(doc) THEN front ELSE Append(front, RemarkOf(doc))

(***************************************************************************)
(* float64 arithmetic (exact on the rationals the bounds produce)          *)
(***************************************************************************)
RECURSIVE GCD(_, _)
GCD(a, b) == IF b = 0 THEN a ELSE GCD(b, a % b)
Abs(x) == IF x < 0 THEN -x ELSE x
Sign(x) == IF x < 0 THEN -1 ELSE IF x > 0 THEN 1 ELSE 0

NaN == [k |-> "nan", n |-> 0, d |-> 0]
Inf(sign) == [k |-> "inf", n |-> sign, d |-> 0]
Frac(n, d) ==
    LET g == GCD(Abs(n), Abs(d))
    IN [k |-> "fin", n |-> Sign(d) * (n \div g), d |-> Abs(d) \div g]
F(i) == [k |-> "fin", n |-> i, d |-> 1]

IsFinite(x) == x.k = "fin"
IsZero(x) == x.k = "fin" /\ x.n = 0

\* x / y; an integer converted to float64 is never -0, so a zero divisor is +0
FDiv(x, y) ==
    CASE x.k = "nan" \/ y.k = "nan" -> NaN
      [] x.k = "inf" /\ y.k = "inf" -> NaN
      [] x.k = "inf" -> Inf(IF y.n < 0 THEN -x.n ELSE x.n)
      [] y.k = "inf" -> F(0)
      [] y.n = 0 -> IF x.n = 0 THEN NaN ELSE Inf(Sign(x.n))
      [] OTHER -> Frac(x.n * y.d, x.d * y.n)

FAdd(x, y) ==
    CASE x.k = "nan" \/ y.k = "nan" -> NaN
      [] x.k = "inf" /\ y.k = "inf" -> IF x.n = y.n THEN x ELSE NaN
      [] x.k = "inf" -> x
      [] y.k = "inf" -> y
      [] OTHER -> Frac(x.n * y.d + y.n * x.d, x.d * y.d)

FMul(x, y) ==
    CASE x.k = "nan" \/ y.k = "nan" -> NaN
      [] x.k = "inf" \/ y.k = "inf" ->
            IF x.n = 0 \/ y.n = 0 THEN NaN ELSE Inf(Sign(x.n) * Sign(y.n))
      [] OTHER -> Frac(x.n * y.n, x.d * y.d)

\* x > y (false whenever an operand is NaN)
FGt(x, y) ==
    CASE x.k = "nan" \/ y.k = "nan" -> FALSE
      [] x.k = "inf" -> x.n > 0 /\ ~(y.k = "inf" /\ y.n > 0)
      [] y.k = "inf" -> y.n < 0
      [] OTHER -> x.n * y.d > y.n * x.d

(***************************************************************************)
(* performance.Analyzer                                                    *)
(***************************************************************************)
MemoryThreshold == Frac(9, 10)
CompileTimeThreshold == F(60)
MissedThreshold == 10

MapGet(m, k) == IF k \in DOMAIN m THEN m[k] ELSE 0

Panic == [k |-> "panic", n |-> 0, d |-> 1]

\* the same mean with both ratios taken as integer divisions
calculateResourceEfficiencyIntDiv(b) ==
    IF IsZero(b.ResourceUsage.CPUTime) THEN F(0)
    ELSE IF b.Hardware.CPU.Cores = 0 \/ b.Hardware.Memory.Total = 0 THEN Panic
    ELSE FDiv(F((b.ResourceUsage.Threads \div b.Hardware.CPU.Cores)
                + (b.ResourceUsage.MaxMemory \div b.Hardware.Memory.Total)), F(2))

calculateResourceEfficiency(b) ==
    IF IsZero(b.ResourceUsage.CPUTime) THEN F(0)
    ELSE LET cpuEfficiency == FDiv(F(b.ResourceUsage.Threads), F(b.Hardware.CPU.Cores))
             memoryEfficiency == FDiv(F(b.ResourceUsage.MaxMemory), F(b.Hardware.Memory.Total))
         IN FDiv(FAdd(cpuEfficiency, memoryEfficiency), F(2))

\* strings.HasPrefix and strings.Contains
HasPrefix(str, pre) == Len(str) >= Len(pre) /\ SubSeq(str, 1, Len(pre)) = pre
Contains(str, sub) ==
    \E i \in 1..(Len(str) + 1) :
        i + Len(sub) - 1 <= Len(str) /\ SubSeq(str, i, i + Len(sub) - 1) = sub

\* strconv.ParseInt(str, 10, 64): an optional sign, then decimal digits
\* only, and at least one; a value outside int64 is a range error. The
\* value is an int64 in two's complement.
ParseInt(str) ==
    LET DigitChars == <<"0", "1", "2", "3", "4", "5", "6", "7", "8", "9">>
        IsDigit(c) == \E d \in 1..10 : DigitChars[d] = c
        DigitValue(c) == (CHOOSE d \in 1..10 : DigitChars[d] = c) - 1
        signed == str # "" /\ SubSeq(str, 1, 1) \in {"+", "-"}
        neg == signed /\ SubSeq(str, 1, 1) = "-"
        digits == IF signed THEN SubSeq(str, 2, Len(str)) ELSE str
        syntax == digits # "" /\ \A i \in 1..Len(digits) : IsDigit(SubSeq(digits, i, i))
        \* the magnitude as a uint64, and whether it left that range
        RECURSIVE UAcc(_)
        UAcc(k) ==
            IF k = 0 THEN [v |-> Zero64, over |-> FALSE]
            ELSE LET prev == UAcc(k - 1)
                     r == Times10Plus(prev.v, DigitValue(SubSeq(digits, k, k)))
                 IN [v |-> SubSeq(r, 1, 4), over |-> prev.over \/ r[5] > 0]
        mag == UAcc(Len(digits))
        inRange == /\ ~mag.over
                   /\ \/ mag.v[4] < 32768
                      \/ neg /\ mag.v = <<0, 0, 0, 32768>>
        RECURSIVE Negate(_, _)
        Negate(x, c) ==
            IF x = <<>> THEN <<>>
            ELSE LET t == (LimbBase - 1 - x[1]) + c
                 IN <<t % LimbBase>> \o Negate(Tail(x), t \div LimbBase)
        ok == syntax /\ inRange
    IN [ok |-> ok,
        v |-> IF ~ok THEN Zero64
              ELSE IF neg THEN Negate(mag.v, 1)
              ELSE mag.v]

\* the outer loop over the remarks whose message contains "alloca" and the
\* inner loop over the remark's arguments: the int64 sum of the strings
\* that parse. The loop ranges over the arguments one by one and looks at
\* arg.String only, skipping the empty ones; the parser keeps exactly these
\* values, the non-empty arg.String of each entry in list order, in
\* Args.Strings.
calculateWastedMemory(b) ==
    LET RECURSIVE Add64(_, _, _)
        Add64(x, y, c) ==
            IF x = <<>> THEN <<>>
            ELSE LET t == x[1] + y[1] + c
                 IN <<t % LimbBase>> \o Add64(Tail(x), Tail(y), t \div LimbBase)
        RECURSIVE SumParsed(_, _)
        SumParsed(acc, strs) ==
            IF strs = <<>> THEN acc
            ELSE LET str == Head(strs)
                 IN IF str # "" /\ ParseInt(str).ok
                    THEN SumParsed(Add64(acc, ParseInt(str).v, 0), Tail(strs))
                    ELSE SumParsed(acc, Tail(strs))
        RECURSIVE WastedIn(_, _)
        WastedIn(acc, rs) ==
            IF rs = <<>> THEN acc
            ELSE LET r == Head(rs)
                 IN IF Contains(r.Message, "alloca")
                    THEN WastedIn(SumParsed(acc, r.Args.Strings), Tail(rs))
                    ELSE WastedIn(acc, Tail(rs))
    IN WastedIn(Zero64, b.Remarks)

analyzeMemoryUsage(b) ==
    [peak |-> b.ResourceUsage.MaxMemory,
     average |-> b.ResourceUsage.MaxMemory \div 2,
     allocated |-> b.ResourceUsage.MaxMemory,
     wasted |-> calculateWastedMemory(b)]

analyzeCompilationOverhead(b) ==
    [parsing |-> FMul(b.Performance.CompileTime, Frac(1, 5)),
     optimization |-> b.Performance.OptimizeTime,
     codegen |-> FMul(b.Performance.CompileTime, Frac(2, 5)),
     linking |-> b.Performance.LinkTime]

\* a Go map: a key is present only once it has been incremented
analyzeOptimizationMetrics(b) ==
    LET counts == [successful_optimizations |-> CountType(b.Remarks, S_Passed),
                   missed_optimizations |-> CountType(b.Remarks, S_Missed),
                   analysis_remarks |-> CountType(b.Remarks, S_Analysis)]
    IN [key \in {x \in DOMAIN counts : counts[x] > 0} |-> counts[key]]

Bottleneck(ty, sev, desc, impact) ==
    [Type |-> ty, Severity |-> sev, Description |-> desc, Impact |-> impact]

identifyBottlenecks(b) ==
    LET memoryUtilization == FDiv(F(b.ResourceUsage.MaxMemory), F(b.Hardware.Memory.Total))
        missedOpts == CountType(b.Remarks, S_Missed)
        mem == IF FGt(memoryUtilization, MemoryThreshold)
               THEN <<Bottleneck("memory", "high", "High memory utilization", memoryUtilization)>>
               ELSE <<>>
        comp == IF FGt(b.Performance.CompileTime, CompileTimeThreshold)
                THEN <<Bottleneck("compilation", "medium", "Long compilation time",
                                  b.Performance.CompileTime)>>
                ELSE <<>>
        opt == IF missedOpts > MissedThreshold
               THEN <<Bottleneck("optimization", "low", "High number of missed optimizations",
                                 F(missedOpts))>>
               ELSE <<>>
    IN mem \o comp \o opt

Recommendation(cat, action, impact, details) ==
    [Category |-> cat, Action |-> action, Impact |-> impact, Details |-> details]

RecommendationForCompileKey(bottleneck) ==
    CASE bottleneck.Type = "memory" ->
            <<Recommendation("Memory Usage", "Consider reducing static allocations", "High",
                             "Large static allocations detected. Consider using dynamic allocation or reducing buffer sizes.")>>
      [] bottleneck.Type = "compile" ->
            <<Recommendation("Build Performance", "Enable parallel compilation", "Medium",
                             "Long compilation time detected. Consider using -j flag or distributed compilation.")>>
      [] bottleneck.Type = "optimization" ->
            <<Recommendation("Optimization", "Review missed optimization opportunities", "Medium",
                             "Multiple optimization opportunities were missed. Consider reviewing the code structure.")>>
      [] OTHER -> <<>>

\* the switch of the loop body: what one bottleneck appends
RecommendationFor(bottleneck) ==
    CASE bottleneck.Type = "memory" ->
            <<Recommendation("Memory Usage", "Consider reducing static allocations", "High",
                             "Large static allocations detected. Consider using dynamic allocation or reducing buffer sizes.")>>
      [] bottleneck.Type = "compilation" ->
            <<Recommendation("Build Performance", "Enable parallel compilation", "Medium",
                             "Long compilation time detected. Consider using -j flag or distributed compilation.")>>
      [] bottleneck.Type = "optimization" ->
            <<Recommendation("Optimization", "Review missed optimization opportunities", "Medium",
                             "Multiple optimization opportunities were missed. Consider reviewing the code structure.")>>
      [] OTHER -> <<>>

RECURSIVE generateRecommendations(_)
generateRecommendations(bottlenecks) ==
    IF bottlenecks = <<>> THEN <<>>
    ELSE generateRecommendations(SubSeq(bottlenecks, 1, Len(bottlenecks) - 1))
            \o RecommendationFor(bottlenecks[Len(bottlenecks)])

AnalyzeResult(b) ==
    LET bottlenecks == identifyBottlenecks(b)
    IN [ResourceEfficiency |-> calculateResourceEfficiency(b),
        MemoryUsageProfile |-> analyzeMemoryUsage(b),
        CompilationOverhead |-> analyzeCompilationOverhead(b),
        OptimizationMetrics |-> analyzeOptimizationMetrics(b),
        Bottlenecks |-> bottlenecks,
        Recommendations |-> generateRecommendations(bottlenecks)]

\* Inputs of the analyzer
CoreValues == {0, 2}
MemTotalValues == {0, 10}
MaxMemoryValues == {0, 5, 10}
ThreadValues == {0, 4}
CPUTimeValues == {F(0), F(1)}
CompileTimeValues == {F(0), F(60), F(65)}

Builds ==
    { [Remarks |-> <<>>,
       ResourceUsage |-> [MaxMemory |-> mm, CPUTime |-> ct, Threads |-> th],
       Hardware |-> [CPU |-> [Cores |-> co], Memory |-> [Total |-> mt]],
       Performance |-> [CompileTime |-> cpt, OptimizeTime |-> F(0), LinkTime |-> F(0)]] :
      mm \in MaxMemoryValues, ct \in CPUTimeValues, th \in ThreadValues,
      co \in CoreValues, mt \in MemTotalValues, cpt \in CompileTimeValues }

\* record files the remarks collector may have parsed
ARecords ==
    { DocMap(Bang(S_Passed), "inline", "Inlined", "main"),
      DocMap(Bang(S_Missed), "loop-vectorize", "MissedDetails", "f"),
      DocMap(Bang(S_Analysis), "asm-printer", "InstructionCount", "f"),
      DocMapArgs(Bang(S_Analysis), "stack-frame-layout", "alloca", "f",
                 <<ArgEntry("16", "", "", "", "", "", "", ""),
                   ArgEntry("x", "", "", "", "", "", "", ""),
                   ArgEntry("-8", "", "", "", "", "", "", ""),
                   ArgEntry("9223372036854775808", "", "", "", "", "", "", "")>>),
      DocMapArgs(Bang(S_Passed), "inline", "Inlined", "main",
                 <<ArgEntry("32", "", "", "", "", "", "", "")>>) }

AStreams ==
    SeqsUpTo(ARecords, 2) \cup
    { Repeat(DocMap(Bang(S_Missed), "loop-vectorize", "MissedDetails", "f"), n) : n \in 0..MaxRun }

AInit ==
    /\ build \in Builds
    /\ result = <<>>
    /\ apc = "collect"
    /\ aErr = "none"

AIdle ==
    /\ build = CHOOSE b \in Builds : TRUE
    /\ result = <<>>
    /\ apc = "done"
    /\ aErr = "none"

\* storeBuildData(build, "remarks", data) with the remarks collector's data
StoreBuildData ==
    /\ mode = "analyze"
    /\ apc = "collect"
    /\ \E docs \in AStreams :
          build' = [build EXCEPT !.Remarks = @ \o ParseDocs(docs)]
    /\ apc' = "analyze"
    /\ UNCHANGED <<result, aErr, kvars, dvars, gvars, cvars, xvars, mode>>

\* a step of Analyze raised a run-time panic
Panicked(r) == r.ResourceEfficiency.k = "panic"

\* an Analyze that consumes the remark list while counting
AnalyzeDrainingRemarks ==
    /\ mode = "analyze"
    /\ apc \in {"collect", "analyze"}
    /\ result' = <<AnalyzeResult(build)>>
    /\ aErr' = "nil"
    /\ apc' = "done"
    /\ build' = [build EXCEPT !.Remarks = <<>>]
    /\ UNCHANGED <<kvars, dvars, gvars, cvars, xvars, mode>>

\* Analyzer.Analyze (also reached when no collector stored anything):
\* `return result, nil` unless a step panics
Analyze ==
    /\ mode = "analyze"
    /\ apc \in {"collect", "analyze"}
    /\ IF Panicked(AnalyzeResult(build))
       THEN result' = <<>> /\ aErr' = "panic"
       ELSE result' = <<AnalyzeResult(build)>> /\ aErr' = "nil"
    /\ apc' = "done"
    /\ UNCHANGED <<build, kvars, dvars, gvars, cvars, xvars, mode>>

ANext == StoreBuildData \/ Analyze

(***************************************************************************)
(* generateRecommendations on the lists identifyBottlenecks returns        *)
(***************************************************************************)
\* the only call (Analyze) passes the list identifyBottlenecks returned
GInit ==
    /\ gBottlenecks \in {identifyBottlenecks(b) : b \in Builds}
    /\ gRecs = <<>>

GIdle ==
    /\ gBottlenecks = <<>>
    /\ gRecs = <<>>

GApply ==
    /\ mode = "recommend"
    /\ gRecs = <<>>
    /\ gRecs' = <<generateRecommendations(gBottlenecks)>>
    /\ UNCHANGED <<gBottlenecks, kvars, dvars, avars, cvars, xvars, mode>>

GNext == GApply

(***************************************************************************)
(* Two kernel.Parser instances parsing concurrently                        *)
(***************************************************************************)
Parsers == {1, 2}

CLines ==
    { KLine(TRUE, KLoc("k.c", <<1, 2>>, <<7>>, "kern"), KCall("f")),
      KLine(TRUE, KLoc("k.c", <<3>>, <<1>>, "other"), KText("note")),
      KLine(TRUE, <<>>, KMetric("DirectCalls", <<3>>, "DirectCalls = 3")),
      KLine(TRUE, <<>>, KMetric("NumStackBytes", <<1, 6>>, "NumStackBytes = 16")),
      KLine(FALSE, <<>>, KText("warning")) }

CStreams == SeqsUpTo(CLines, MaxConcLines)

SharedReceiver(p) == 1

\* the instance whose currentFunc and metrics fields a method called on
\* instance p reads and writes: the receiver itself
Receiver(p) == p

CInit ==
    /\ cInput \in [Parsers -> CStreams]
    /\ cPos = [p \in Parsers |-> 0]
    /\ cRemarks = [p \in Parsers |-> <<>>]
    /\ cFunc = [p \in Parsers |-> ""]
    /\ cMetrics = [p \in Parsers |-> EmptyMap]
    /\ cpc = [p \in Parsers |-> "scan"]
    /\ cStamps = [p \in Parsers |-> <<>>]
    /\ cClock = 0

CIdle ==
    /\ cInput = [p \in Parsers |-> <<>>]
    /\ cPos = [p \in Parsers |-> 0]
    /\ cRemarks = [p \in Parsers |-> <<>>]
    /\ cFunc = [p \in Parsers |-> ""]
    /\ cMetrics = [p \in Parsers |-> EmptyMap]
    /\ cpc = [p \in Parsers |-> "done"]
    /\ cStamps = [p \in Parsers |-> <<>>]
    /\ cClock = 0

\* the wall clock between two steps: it stands or moves on
ClockAfter(now) == {now} \cup {t \in {now + 1} : t <= MaxClock}

\* one iteration of `for scanner.Scan()` of instance p
CScanLine(p) ==
    /\ mode = "two"
    /\ cpc[p] = "scan"
    /\ cPos[p] < Len(cInput[p])
    /\ LET line == cInput[p][cPos[p] + 1]
           r == Receiver(p)
       IN /\ cPos' = [cPos EXCEPT ![p] = @ + 1]
          /\ IF ~HasRemarkPrefix(line)
             THEN UNCHANGED <<cRemarks, cFunc, cMetrics, cStamps>>
             ELSE /\ cRemarks' = [cRemarks EXCEPT ![p] =
                                    IF parseLineErr(line) THEN @
                                    ELSE AppendRemark(@, parseLineRemark(line))]
                  /\ cStamps' = [cStamps EXCEPT ![p] =
                                    IF parseLineErr(line) THEN @
                                    ELSE AppendRemark(@, cClock)]
                  /\ cFunc' = [cFunc EXCEPT ![r] = parseLineFunc(line, @)]
                  /\ cMetrics' = [cMetrics EXCEPT ![r] = parseLineMetrics(line, @)]
    /\ cClock' \in ClockAfter(cClock)
    /\ UNCHANGED <<cInput, cpc, kvars, dvars, avars, gvars, xvars, mode>>

\* the trailing loop over p.metrics and the return of instance p
CFinish(p) ==
    /\ mode = "two"
    /\ cpc[p] = "scan"
    /\ cPos[p] = Len(cInput[p])
    /\ LET m == cMetrics[Receiver(p)]
           n == Cardinality(DOMAIN m)
       IN \E order \in Perms(DOMAIN m) :
          \E st \in [1..n -> 0..MaxClock] :
             \* each iteration reads the clock, which may have moved on
             /\ n > 0 => st[1] = cClock
             /\ \A i \in 1..(n - 1) : st[i + 1] \in ClockAfter(st[i])
             /\ cRemarks' = [cRemarks EXCEPT ![p] =
                   @ \o [i \in 1..n |-> MetricRemark(order[i], m[order[i]])]]
             /\ cStamps' = [cStamps EXCEPT ![p] = @ \o [i \in 1..n |-> st[i]]]
             /\ cClock' \in ClockAfter(IF n = 0 THEN cClock ELSE st[n])
    /\ cpc' = [cpc EXCEPT ![p] = "done"]
    /\ UNCHANGED <<cInput, cPos, cFunc, cMetrics, kvars, dvars, avars, gvars, xvars, mode>>

CNext == \E p \in Parsers : CScanLine(p) \/ CFinish(p)

(***************************************************************************)
(* Collectors of executeBuild                                              *)
(***************************************************************************)
A_Rpass ==
    <<"-", "R", "p", "a", "s", "s">>
A_O ==
    <<"-", "O">>
A_SaveRecord ==
    <<"-", "f", "s", "a", "v", "e", "-", "o", "p", "t", "i", "m", "i", "z",
      "a", "t", "i", "o", "n", "-", "r", "e", "c", "o", "r", "d">>
A_RecordFile ==
    <<"-", "f", "o", "p", "t", "i", "m", "i", "z", "a", "t", "i", "o", "n",
      "-", "r", "e", "c", "o", "r", "d", "-", "f", "i", "l", "e">>

isOptimizationFlagKeepRpass(arg) ==
    \/ HasPrefix(arg, A_SaveRecord)
    \/ HasPrefix(arg, A_RecordFile)
    \/ HasPrefix(arg, A_O)

isOptimizationFlag(arg) ==
    \/ HasPrefix(arg, A_SaveRecord)
    \/ HasPrefix(arg, A_RecordFile)
    \/ HasPrefix(arg, A_O)
    \/ HasPrefix(arg, A_Rpass)

RECURSIVE CleanedArgs(_)
CleanedArgs(args) ==
    IF args = <<>> THEN <<>>
    ELSE LET front == CleanedArgs(SubSeq(args, 1, Len(args) - 1))
             arg == args[Len(args)]
         IN IF isOptimizationFlag(arg) THEN front ELSE Append(front, arg)

\* BuildContext.Args after addCompilerFlags
\* the record file is tmp/remarks.yml
addCompilerFlags(args) ==
    <<A_SaveRecord,
      A_RecordFile \o <<"=", "t", "m", "p", "/", "r", "e", "m", "a", "r", "k", "s", ".", "y", "m", "l">>,
      A_O \o <<"2">>>> \o CleanedArgs(args)

\* strings.Contains(arg, "Rpass=kernel-info")
hasKernelInfoPass(args) ==
    \E i \in 1..Len(args) :
        Contains(args[i], <<"R", "p", "a", "s", "s", "=", "k", "e", "r", "n", "e", "l", "-",
                            "i", "n", "f", "o">>)

Collectors == {"compiler", "kernel", "remarks"}

\* command-line arguments: -Rpass=kernel-info, -fplugin-arg-Rpass=kernel-info,
\* -Rpass-missed=inline, -O3, -c
UserArgs ==
    { <<"-", "R", "p", "a", "s", "s", "=", "k", "e", "r", "n", "e", "l", "-",
        "i", "n", "f", "o">>,
      <<"-", "f", "p", "l", "u", "g", "i", "n", "-", "a", "r", "g", "-", "R",
        "p", "a", "s", "s", "=", "k", "e", "r", "n", "e", "l", "-", "i",
        "n", "f", "o">>,
      <<"-", "R", "p", "a", "s", "s", "-", "m", "i", "s", "s", "e", "d", "=",
        "i", "n", "l", "i", "n", "e">>,
      <<"-", "O", "3">>,
      <<"-", "c">> }

XInit ==
    /\ osArgs \in SeqsUpTo(UserArgs, MaxUserArgs)
    /\ bcArgs = osArgs
    /\ colInit = {}
    /\ colDone = {}
    /\ yamlPath = ""
    /\ yamlExists = FALSE
    /\ rpc = "idle"
    /\ rcErr = "none"
    /\ rmErr = "none"
    /\ kcErr = "none"

XIdle ==
    /\ osArgs = <<>>
    /\ bcArgs = <<>>
    /\ colInit = Collectors
    /\ colDone = Collectors
    /\ yamlPath = ""
    /\ yamlExists = FALSE
    /\ rpc = "returned"
    /\ rcErr = "none"
    /\ rmErr = "none"
    /\ kcErr = "none"

\* collector.Initialize, in the order the range over the collector map
\* happens to take
XInitialize(c) ==
    /\ mode = "collect"
    /\ c \notin colInit
    /\ colInit' = colInit \cup {c}
    /\ IF c = "remarks"
       THEN /\ yamlPath' = "tmp/remarks.yml"
            /\ bcArgs' = addCompilerFlags(bcArgs)
       ELSE UNCHANGED <<yamlPath, bcArgs>>
    /\ UNCHANGED <<osArgs, colDone, yamlExists, rpc, rcErr, rmErr, kcErr, kvars, dvars,
                   avars, gvars,
                   cvars, mode>>

\* kernel.Collector.Collect: the compiler run writes the record file when
\* the shared arguments ask for it
XKernelCollect ==
    /\ mode = "collect"
    /\ colInit = Collectors
    /\ "kernel" \notin colDone
    /\ rpc # "ran"
    /\ IF ~hasKernelInfoPass(bcArgs)
       THEN kcErr' = "not enabled" /\ UNCHANGED yamlExists
       ELSE /\ kcErr' \in {"nil", "run"}
            /\ yamlExists' \in {yamlExists,
                                 \E i \in 1..Len(bcArgs) : HasPrefix(bcArgs[i], A_RecordFile)}
    /\ colDone' = colDone \cup {"kernel"}
    /\ UNCHANGED <<osArgs, bcArgs, colInit, yamlPath, rpc, rcErr, rmErr, kvars, dvars,
                   avars, gvars,
                   cvars, mode>>

\* compiler.Collector.Collect
XOtherCollect ==
    /\ mode = "collect"
    /\ colInit = Collectors
    /\ "compiler" \notin colDone
    /\ rpc # "ran"
    /\ colDone' = colDone \cup {"compiler"}
    /\ UNCHANGED <<osArgs, bcArgs, colInit, yamlPath, yamlExists, rpc, rcErr, rmErr, kcErr,
                   kvars, dvars, avars, gvars, cvars, mode>>

\* remarks.Collector.Collect up to the end of cmd.Run(): the compiler has
\* written the record file, or has not
XRemarksRun ==
    /\ mode = "collect"
    /\ colInit = Collectors
    /\ "remarks" \notin colDone
    /\ rpc = "idle"
    /\ yamlExists' \in BOOLEAN
    /\ rpc' = "ran"
    /\ UNCHANGED <<osArgs, bcArgs, colInit, colDone, yamlPath, rcErr, rmErr, kcErr,
                   kvars, dvars, avars, gvars, cvars, mode>>

\* the deferred Cleanup, whatever the error of Collect: os.Remove(yamlPath)
\* when the path is set; TRUE iff the file exists afterwards. A Remove that
\* fails (with another error than not-exist) leaves the file as it was.
DeferredCleanup(err, path, exists, removeFails) ==
    IF path # "" /\ ~removeFails THEN FALSE ELSE exists

\* the rest of remarks.Collector.Collect: os.Stat, Parse, the return and
\* the deferred Cleanup, whose error (rmErr) the deferred function logs
XRemarksReturn ==
    /\ mode = "collect"
    /\ rpc = "ran"
    /\ \E err \in (IF yamlExists THEN {"nil", "parse"} ELSE {"not created"}) :
       \E removeFails \in BOOLEAN :
          /\ rcErr' = err
          /\ yamlExists' = DeferredCleanup(err, yamlPath, yamlExists, removeFails)
          /\ rmErr' = IF yamlPath # "" /\ removeFails THEN "failed" ELSE "nil"
    /\ rpc' = "returned"
    /\ colDone' = colDone \cup {"remarks"}
    /\ UNCHANGED <<osArgs, bcArgs, colInit, yamlPath, kcErr, kvars, dvars, avars, gvars,
                   cvars, mode>>

XNext ==
    \/ \E c \in Collectors : XInitialize(c)
    \/ XKernelCollect
    \/ XOtherCollect
    \/ XRemarksRun
    \/ XRemarksReturn

(***************************************************************************)
(* Specifications                                                          *)
(***************************************************************************)
InitKernel == mode = "kernel" /\ KInit /\ DIdle /\ AIdle /\ GIdle /\ CIdle /\ XIdle
InitDoc == mode = "doc" /\ KIdle /\ DInit /\ AIdle /\ GIdle /\ CIdle /\ XIdle
InitAnalyze == mode = "analyze" /\ KIdle /\ DIdle /\ AInit /\ GIdle /\ CIdle /\ XIdle
InitRecommend == mode = "recommend" /\ KIdle /\ DIdle /\ AIdle /\ GInit /\ CIdle /\ XIdle
InitArgs == mode = "doc" /\ KIdle /\ DInitArgs /\ AIdle /\ GIdle /\ CIdle /\ XIdle
InitCollect == mode = "collect" /\ KIdle /\ DIdle /\ AIdle /\ GIdle /\ CIdle /\ XInit
InitTwoParsers == mode = "two" /\ KIdle /\ DIdle /\ AIdle /\ GIdle /\ CInit /\ XIdle

SpecKernel == InitKernel /\ [][KNext]_vars
SpecDoc == InitDoc /\ [][DNext]_vars
FairSpecDoc == InitDoc /\ [][DNext]_vars /\ WF_vars(DNext)
SpecAnalyze == InitAnalyze /\ [][ANext]_vars
SpecRecommend == InitRecommend /\ [][GNext]_vars
SpecTwoParsers == InitTwoParsers /\ [][CNext]_vars
SpecArgs == InitArgs /\ [][DNext]_vars
SpecCollect == InitCollect /\ [][XNext]_vars

Init == InitKernel \/ InitDoc \/ InitAnalyze \/ InitRecommend \/ InitTwoParsers \/ InitCollect
Next == KNext \/ DNext \/ ANext \/ GNext \/ CNext \/ XNext
Spec == Init /\ [][Next]_vars

(***************************************************************************)
(* Properties                                                              *)
(***************************************************************************)
IsRemarkLine(line) == line.pre
IsMetricLine(line) == line.pre /\ line.body.kind = "metric"
IsCallLine(line) == line.pre /\ line.body.kind = "call"
IsSynthetic(r) == r.Type = S_metric

\* value of the last line of the stream that assigns metric `name`
LastAssigned(name) ==
    LET idx == {i \in 1..Len(kInput) : IsMetricLine(kInput[i]) /\ kInput[i].body.name = name}
        last == CHOOSE i \in idx : \A j \in idx : j <= i
    IN parseInt(kInput[last].body.digits)

\* C1: when the kernel-info parse has finished, every metric name that some
\* line "M = v" assigned has exactly one synthetic metric remark, and that
\* remark carries the value of the last such line (not a sum, not lost).
C1_LastValueWins ==
    kpc = "done" =>
        \A i \in 1..Len(kInput) :
            IsMetricLine(kInput[i]) =>
                LET name == kInput[i].body.name
                    syn == {j \in 1..Len(kRemarks) :
                                IsSynthetic(kRemarks[j]) /\ kRemarks[j].Message = name}
                IN /\ Cardinality(syn) = 1
                   /\ \A j \in syn : MapGet(kRemarks[j].Metadata, "value") = LastAssigned(name)

TaggedCount(docs) == Cardinality({i \in 1..Len(docs) : HasTag(docs[i])})
RemarkLineCount(ls) == Cardinality({i \in 1..Len(ls) : IsRemarkLine(ls[i])})

OnlyMappings(docs) == \A i \in 1..Len(docs) : docs[i].kind = "map" /\ docs[i].typed

\* C2: a readable stream of well-formed records, some tagged and some
\* without a type tag, parses without error into exactly one remark per
\* tagged record; the tag-less records are skipped.
C2_TaglessSkipped ==
    (mode = "doc" /\ dpc = "done" /\ dReadable /\ OnlyMappings(dStream)) =>
        /\ dErr = "nil"
        /\ Len(dRemarks) = TaggedCount(dStream)

\* C3: with zero total memory and zero cores, resource_efficiency is the
\* finite number 0 whatever the resource-usage values are.
C3_ZeroHardwareEfficiency ==
    (result # <<>> /\ build.Hardware.CPU.Cores = 0 /\ build.Hardware.Memory.Total = 0) =>
        result[1].ResourceEfficiency = F(0)

CountStatus(rs, st) == Cardinality({i \in 1..Len(rs) : rs[i].Status = st})

ExpectedBottlenecks(b) ==
    (IF FGt(FDiv(F(b.ResourceUsage.MaxMemory), F(b.Hardware.Memory.Total)), Frac(9, 10))
        THEN {<<"memory", "high">>} ELSE {})
    \cup (IF FGt(b.Performance.CompileTime, F(60))
        THEN {<<"compilation", "medium">>} ELSE {})
    \cup (IF CountStatus(b.Remarks, "missed") > 10
        THEN {<<"optimization", "low">>} ELSE {})

\* C4: the bottleneck list holds exactly a memory/high entry iff peak/total
\* > 0.9, a compilation/medium entry iff compile time > 60.0 and an
\* optimization/low entry iff more than 10 remarks are missed
\* optimizations; no type appears twice.
C4_BottleneckThresholds ==
    result # <<>> =>
        LET bs == result[1].Bottlenecks
        IN /\ {<<bs[i].Type, bs[i].Severity>> : i \in 1..Len(bs)} = ExpectedBottlenecks(build)
           /\ \A i, j \in 1..Len(bs) : bs[i].Type = bs[j].Type => i = j

CategoryOf(ty) ==
    CASE ty = "memory" -> "Memory Usage"
      [] ty = "compilation" -> "Build Performance"
      [] ty = "optimization" -> "Optimization"

KnownTypes == {"memory", "compilation", "optimization"}

\* C5: the recommendation list of an analysis has exactly one entry per
\* distinct bottleneck type present in its bottleneck list (memory gives
\* "Memory Usage", compilation "Build Performance", optimization
\* "Optimization") and nothing else; a bottleneck list holding only a
\* compilation bottleneck gives exactly one "Build Performance" entry.
C5_OnePerDistinctType ==
    result # <<>> =>
        LET bs == result[1].Bottlenecks
            present == {bs[i].Type : i \in 1..Len(bs)} \cap KnownTypes
            recs == result[1].Recommendations
        IN /\ Len(recs) = Cardinality(present)
           /\ {recs[i].Category : i \in 1..Len(recs)} = {CategoryOf(ty) : ty \in present}
           /\ (Len(bs) = 1 /\ bs[1].Type = "compilation")
                 => (Len(recs) = 1 /\ recs[1].Category = "Build Performance")

\* an analysis of a build with compile time 65 and nothing else amiss: one
\* compilation bottleneck and one "Build Performance" recommendation
C5_Witness ==
    /\ mode = "analyze" /\ result # <<>>
    /\ Len(result[1].Bottlenecks) = 1
    /\ result[1].Bottlenecks[1].Type = "compilation"
    /\ result[1].Bottlenecks[1].Severity = "medium"
    /\ Len(result[1].Recommendations) = 1
    /\ result[1].Recommendations[1].Category = "Build Performance"

\* C6: a parser never returns more remarks than its input has units with
\* the leading signature: lines starting with "remark: " for the kernel-info
\* parser, records carrying a type tag for the document-stream parser.
C6_OutputBounded ==
    /\ Len(kRemarks) <= RemarkLineCount(kInput)
    /\ Len(dRemarks) <= TaggedCount(dStream)

\* the kernel that owns line i: the function of the last located
\* "remark: " line up to i
RECURSIVE OwnerAt(_)
OwnerAt(i) ==
    IF i = 0 THEN ""
    ELSE IF kInput[i].pre THEN parseLineFunc(kInput[i], OwnerAt(i - 1)) ELSE OwnerAt(i - 1)

RECURSIVE CalleesOf(_, _)
CalleesOf(owner, n) ==
    IF n = 0 THEN <<>>
    ELSE IF IsCallLine(kInput[n]) /\ OwnerAt(n) = owner
         THEN Append(CalleesOf(owner, n - 1), kInput[n].body.name)
         ELSE CalleesOf(owner, n - 1)

\* C7: when the parse has finished, for every kernel with direct-call lines
\* some reported kernel-info descriptor lists all of that kernel's callees,
\* in input order, duplicates kept.
C7_CalleesAccumulate ==
    kpc = "done" =>
        \A i \in 1..Len(kInput) :
            IsCallLine(kInput[i]) =>
                \E j \in 1..Len(kRemarks) :
                    /\ kRemarks[j].KernelInfo # <<>>
                    /\ kRemarks[j].KernelInfo[1].Callees = CalleesOf(OwnerAt(i), Len(kInput))

\* C8: when the file cannot be read, or the decoder cannot frame the
\* stream, Parse returns at once with an error.
C8_FramingErrorReturned ==
    [][ ((dpc = "read" /\ ~dReadable) \/ (dpc = "handle" /\ dDecErr = "yaml"))
            => (dpc' = "done" /\ dErr' # "nil") ]_vars

\* C9: every document-stream parse eventually returns.
C9_ParseTerminates == <>(dpc = "done")

\* C10: optimization_metrics counts the remarks by status.
C10_CountsByStatus ==
    result # <<>> =>
        LET m == result[1].OptimizationMetrics
        IN /\ MapGet(m, "successful_optimizations") = CountStatus(build.Remarks, "passed")
           /\ MapGet(m, "missed_optimizations") = CountStatus(build.Remarks, "missed")
           /\ MapGet(m, "analysis_remarks") = CountStatus(build.Remarks, "analysis")

\* t spelled in any letter case equals the lower-case word `lower`
EqualFold(t, lower) ==
    /\ Len(t) = Len(lower)
    /\ \A i \in 1..Len(t) :
          \/ t[i] = lower[i]
          \/ \E j \in 1..26 : LowerChars[j] = lower[i] /\ UpperChars[j] = t[i]

\* the status the type word t stands for, <<>> when it is none of the three
FoldedStatus(t) ==
    CASE EqualFold(t, S_passed) -> <<"passed">>
      [] EqualFold(t, S_missed) -> <<"missed">>
      [] EqualFold(t, S_analysis) -> <<"analysis">>
      [] OTHER -> <<>>

\* C11: whenever the loop body handles a record (a document that decodes
\* into the remark structure) whose type tag is "Passed", "Missed" or
\* "Analysis" in any letter case, it appends exactly one remark, and that
\* remark's status is passed, missed or analysis respectively.
C11_TagCaseInsensitive ==
    [][ (dpc = "handle" /\ dDecErr = "nil" /\ RootDecodes(dNode[1]) /\ HasTag(dNode[1])
            /\ FoldedStatus(Tail(dNode[1].tag)) # <<>>)
          => /\ Len(dRemarks') = Len(dRemarks) + 1
             /\ dRemarks'[Len(dRemarks')].Status = FoldedStatus(Tail(dNode[1].tag))[1] ]_vars

\* a finished parse that turned the records tagged !MISSED and !aNALYSIS
\* into remarks with status missed and analysis
C11_Witness ==
    /\ dpc = "done"
    /\ \E i, j \in 1..Len(dRemarks) :
          /\ dRemarks[i].Message = "inline: NoDefinition" /\ dRemarks[i].Status = "missed"
          /\ dRemarks[j].Message = "kernel-info: Note" /\ dRemarks[j].Status = "analysis"

RemarkStatuses == {"passed", "missed", "analysis"}

\* C12: every remark a parser has produced (document-stream remarks for any
\* tag, kernel-info per-line remarks, synthetic metric remarks) carries a
\* status from {passed, missed, analysis}.
C12_StatusInValueSet ==
    /\ \A i \in 1..Len(dRemarks) : dRemarks[i].Status \in RemarkStatuses
    /\ \A i \in 1..Len(kRemarks) : kRemarks[i].Status \in RemarkStatuses

\* positions of the "remark: " lines among the first n lines, in order
RECURSIVE RemarkLinesUpTo(_)
RemarkLinesUpTo(n) ==
    IF n = 0 THEN <<>>
    ELSE IF IsRemarkLine(kInput[n]) THEN Append(RemarkLinesUpTo(n - 1), n)
         ELSE RemarkLinesUpTo(n - 1)

PerLineCount == Cardinality({j \in 1..Len(kRemarks) : ~IsSynthetic(kRemarks[j])})

CarriesOnlyText(r, text) ==
    /\ r.Message = text
    /\ r.KernelInfo # <<>>
    /\ LET ki == r.KernelInfo[1]
       IN /\ ki.Metrics = EmptyMap /\ ki.Callees = <<>> /\ ki.MemoryAccesses = <<>>
          /\ ki.DirectCalls = 0 /\ ki.IndirectCalls = 0
          /\ ki.FlatAddressSpaceAccesses = 0
          /\ ki.AllocasCount = 0 /\ ki.AllocasStaticSize = Zero64

\* C13: the kernel-info parser drops nothing: when Parse has returned, the
\* k-th line of the stream starting with "remark: " is the source of the
\* k-th remark, there are no other per-line remarks, each has kind kernel
\* and status analysis, and the remark of a line in none of the metric,
\* direct-call and memory forms carries only the free-text message.
C13_NothingDropped ==
    kpc = "done" =>
        LET idx == RemarkLinesUpTo(Len(kInput))
        IN /\ PerLineCount = Len(idx)
           /\ Len(kRemarks) >= Len(idx)
           /\ \A k \in 1..Len(idx) :
                 /\ k <= Len(kRemarks)
                 /\ kRemarks[k].Type = S_kernel
                 /\ kRemarks[k].Status = "analysis"
                 /\ kInput[idx[k]].body.kind = "text"
                        => CarriesOnlyText(kRemarks[k], kInput[idx[k]].body.text)

\* metric names assigned by the lines scanned so far
AssignedNames == {kInput[i].body.name : i \in {n \in 1..kPos : IsMetricLine(kInput[n])}}

\* C14: when the parse has finished there is exactly one synthetic
\* metric-kind remark for every metric name some line assigned, none for
\* any other name, and every synthetic remark comes after all per-line
\* remarks.
C14_OneSyntheticPerName ==
    kpc = "done" =>
        LET syn(name) == {j \in 1..Len(kRemarks) :
                            IsSynthetic(kRemarks[j]) /\ kRemarks[j].Message = name}
        IN /\ \A name \in AssignedNames : Cardinality(syn(name)) = 1
           /\ \A j \in 1..Len(kRemarks) :
                 IsSynthetic(kRemarks[j]) => kRemarks[j].Message \in AssignedNames
           /\ \A i, j \in 1..Len(kRemarks) :
                 (i < j /\ IsSynthetic(kRemarks[i])) => IsSynthetic(kRemarks[j])

\* the stream ls with the lines not starting with "remark: " removed
RECURSIVE KeepRemarkLines(_)
KeepRemarkLines(ls) ==
    IF ls = <<>> THEN <<>>
    ELSE LET front == KeepRemarkLines(SubSeq(ls, 1, Len(ls) - 1))
         IN IF IsRemarkLine(ls[Len(ls)]) THEN Append(front, ls[Len(ls)]) ELSE front

\* parser fields after parseLine has been applied to every line of ls
RECURSIVE FuncAfter(_)
FuncAfter(ls) ==
    IF ls = <<>> THEN ""
    ELSE parseLineFunc(ls[Len(ls)], FuncAfter(SubSeq(ls, 1, Len(ls) - 1)))

RECURSIVE MetricsAfter(_)
MetricsAfter(ls) ==
    IF ls = <<>> THEN EmptyMap
    ELSE parseLineMetrics(ls[Len(ls)], MetricsAfter(SubSeq(ls, 1, Len(ls) - 1)))

\* what Parse returns for the stream ls: the remarks of its "remark: "
\* lines up to the first line the scanner cannot deliver
RECURSIVE ParsedRemarks(_)
ParsedRemarks(ls) ==
    IF ls = <<>> THEN <<>>
    ELSE IF Head(ls).long THEN <<>>
    ELSE IF IsRemarkLine(Head(ls)) THEN <<parseLineRemark(Head(ls))>> \o ParsedRemarks(Tail(ls))
    ELSE ParsedRemarks(Tail(ls))

\* the lines of ls the scanner delivers
RECURSIVE Delivered(_)
Delivered(ls) ==
    IF ls = <<>> THEN <<>>
    ELSE IF Head(ls).long THEN <<>>
    ELSE <<Head(ls)>> \o Delivered(Tail(ls))

\* C15: a line not starting with "remark: " is a no-op: what Parse returns
\* for a stream, and the current_function and metric accumulator it leaves,
\* are those of the stream with every such line removed.
C15_OtherLinesIgnored ==
    kpc = "done" =>
        LET without == KeepRemarkLines(kInput)
            expected == ParsedRemarks(without)
        IN /\ PerLineCount = Len(expected)
           /\ Len(kRemarks) >= Len(expected)
           /\ \A k \in 1..Len(expected) : kRemarks[k] = expected[k]
           /\ currentFunc = FuncAfter(Delivered(without))
           /\ metrics = MetricsAfter(Delivered(without))

OrdinaryRemarkLineCount(ls) ==
    Cardinality({i \in 1..Len(ls) : IsRemarkLine(ls[i]) /\ ~ls[i].long})

\* C16: no individual line makes the kernel-info Parse fail or stop early:
\* a finished Parse has scanned every line, its error is non-nil exactly
\* when reading the underlying stream failed, and every "remark: " line
\* before and after an unusual line has become a remark.
C16_NoLineFailsParse ==
    kpc = "done" =>
        /\ kPos = Len(kInput)
        /\ (kErr # "nil") <=> kReadErr
        /\ PerLineCount >= OrdinaryRemarkLineCount(kInput)

\* records the loop body has finished with
DocsHandled == IF dpc = "handle" /\ dDecErr = "nil" THEN dPos - 1 ELSE dPos

\* the records among the first n that are not skipped, in order
RECURSIVE EmittingDocsUpTo(_)
EmittingDocsUpTo(n) ==
    IF n = 0 THEN <<>>
    ELSE IF SkipsRecord(dStream[n]) THEN EmittingDocsUpTo(n - 1)
         ELSE Append(EmittingDocsUpTo(n - 1), dStream[n])

\* C17: both parsers preserve input order and never deduplicate: the k-th
\* per-line remark stems from the k-th scanned "remark: " line, the k-th
\* document remark from the k-th handled record that is not skipped, and
\* equal input units give equally many remarks.
C17_OrderPreserved ==
    /\ LET idx == RemarkLinesUpTo(kPos)
       IN /\ PerLineCount = Len(idx)
          /\ \A k \in 1..Len(idx) :
                k <= Len(kRemarks) /\ kRemarks[k].Message = kInput[idx[k]].body.text
    /\ LET docs == EmittingDocsUpTo(DocsHandled)
       IN /\ Len(dRemarks) = Len(docs)
          /\ \A k \in 1..Len(docs) :
                /\ dRemarks[k].Message = docs[k].Pass \o ": " \o docs[k].Name
                /\ dRemarks[k].Function = docs[k].Function

\* a finished document parse of two identical records followed by a
\* different one: three remarks, the first two equal
C17_Witness ==
    /\ mode = "doc" /\ dpc = "done" /\ dErr = "nil"
    /\ Len(dStream) = 3 /\ dStream[1] = dStream[2] /\ dStream[3] # dStream[1]
    /\ Len(dRemarks) = 3 /\ dRemarks[1] = dRemarks[2] /\ dRemarks[3] # dRemarks[1]

\* C18: Analyze never fails: whatever the build (no remarks, zero hardware
\* fields, zero usage), once it has run there is a result, the error is
\* nil and nothing panicked.
C18_AnalyzeNeverFails ==
    (mode = "analyze" /\ apc = "done") => (result # <<>> /\ aErr = "nil")

\* Analyze has returned for a build without remarks whose hardware fields
\* are zero while CPU time is not
C18_Witness ==
    /\ mode = "analyze" /\ apc = "done" /\ aErr = "nil" /\ result # <<>>
    /\ build.Remarks = <<>>
    /\ build.Hardware.CPU.Cores = 0 /\ build.Hardware.Memory.Total = 0
    /\ ~IsZero(build.ResourceUsage.CPUTime)
    /\ build.ResourceUsage.MaxMemory > 0

\* C20: Analyze does not modify the build record it analyzes.
C20_BuildUnmodified ==
    [][ (mode = "analyze" /\ apc # "done" /\ apc' = "done") => build' = build ]_vars

\* Analyze has returned, with bottlenecks, for a build that still holds its two remarks
C20_Witness ==
    /\ mode = "analyze" /\ apc = "done" /\ result # <<>>
    /\ Len(build.Remarks) = 2
    /\ result[1].Bottlenecks # <<>>

\* what Parse of one instance alone has in `remarks` after n lines of ls
RemarksAlone(ls, n) ==
    LET kept == KeepRemarkLines(SubSeq(ls, 1, n))
    IN [k \in 1..Len(kept) |-> parseLineRemark(kept[k])]

\* the synthetic remarks one instance alone may append, for each order of
\* its own accumulator
SyntheticAlone(ls) ==
    LET m == MetricsAfter(KeepRemarkLines(ls))
    IN {[i \in 1..Len(order) |-> MetricRemark(order[i], m[order[i]])] :
            order \in Perms(DOMAIN m)}

\* C19: two Parse calls on two parser instances share no mutable state:
\* under every interleaving, the remarks, current_function and metric
\* accumulator of each instance are at every moment those of that
\* instance running alone on its own input, and each returns what it
\* would return alone.
C19_InstancesIndependent ==
    \A p \in Parsers :
        LET kept == KeepRemarkLines(SubSeq(cInput[p], 1, cPos[p]))
        IN /\ cFunc[p] = FuncAfter(kept)
           /\ cMetrics[p] = MetricsAfter(kept)
           /\ cpc[p] = "scan" => cRemarks[p] = RemarksAlone(cInput[p], cPos[p])
           /\ cpc[p] = "done" =>
                 \E syn \in SyntheticAlone(cInput[p]) :
                    cRemarks[p] = RemarksAlone(cInput[p], Len(cInput[p])) \o syn

\* both instances are in the middle of their streams, each having seen a
\* located line of a different kernel
C19_Witness ==
    /\ mode = "two"
    /\ \A p \in Parsers : cpc[p] = "scan" /\ cPos[p] = 1 /\ Len(cInput[p]) = 2
    /\ cFunc[1] = "artificial function 'kern"
    /\ cFunc[2] = "artificial function 'other"

\* C21: analyzer divisions degrade to zero: with zero total hardware
\* memory the bottleneck list has no memory entry, whatever the peak
\* memory, and no bottleneck has an infinite or undefined impact.
C21_DivisionsDegradeToZero ==
    result # <<>> =>
        LET bs == result[1].Bottlenecks
        IN /\ build.Hardware.Memory.Total = 0 =>
                \A i \in 1..Len(bs) : bs[i].Type # "memory"
           /\ \A i \in 1..Len(bs) : IsFinite(bs[i].Impact)

\* C22: with cores > 0 and total memory > 0, resource_efficiency is the
\* mean of threads / cores and peak memory / total memory, whatever the
\* recorded CPU time is.
C22_EfficiencyIsMean ==
    (result # <<>> /\ build.Hardware.CPU.Cores > 0 /\ build.Hardware.Memory.Total > 0) =>
        result[1].ResourceEfficiency =
            Frac(build.ResourceUsage.Threads * build.Hardware.Memory.Total
                    + build.ResourceUsage.MaxMemory * build.Hardware.CPU.Cores,
                 2 * build.Hardware.CPU.Cores * build.Hardware.Memory.Total)

\* the number a short decimal numeral denotes
RECURSIVE DecimalValue(_)
DecimalValue(ds) ==
    IF Len(ds) = 0 THEN 0
    ELSE 10 * DecimalValue(SubSeq(ds, 1, Len(ds) - 1)) + ds[Len(ds)]

\* C23: the remark of a scanned line with the location prefix
\* <file>:<line>:<col>: in artificial function '<name>' has file, line and
\* column as written, location.function equal to the bare <name>, and the
\* rest of the line as message; after such a line current_function is
\* <name>.
C23_LocationPrefix ==
    LET idx == RemarkLinesUpTo(kPos)
    IN /\ \A k \in 1..Len(idx) :
             LET line == kInput[idx[k]]
             IN line.loc # <<>> =>
                   /\ k <= Len(kRemarks)
                   /\ kRemarks[k].Location.File = line.loc[1].file
                   /\ kRemarks[k].Location.Line = DecimalValue(line.loc[1].line)
                   /\ kRemarks[k].Location.Column = DecimalValue(line.loc[1].col)
                   /\ kRemarks[k].Location.Function = line.loc[1].name
                   /\ kRemarks[k].Message = line.body.text
       /\ (kPos > 0 /\ IsRemarkLine(kInput[kPos]) /\ kInput[kPos].loc # <<>>)
             => currentFunc = kInput[kPos].loc[1].name

ScalarArgFields == {"Callee", "Caller", "Type", "Line", "Column", "Cost", "Reason"}

\* value of field f in the last entry of the argument list that carries it
LastCarried(args, f) ==
    LET idx == {i \in 1..Len(args) : args[i][f] # ""}
    IN IF idx = {} THEN "" ELSE args[CHOOSE i \in idx : \A j \in idx : j <= i][f]

\* C24: within one record the scalar argument fields are later-wins: each
\* of callee, caller, type, line, column, cost and reason of the remark's
\* args is the value of the last argument entry carrying that field, and
\* empty only if no entry carries it.
C24_ScalarArgsLaterWins ==
    \A k \in 1..Len(dRemarks) :
        LET doc == EmittingDocsUpTo(DocsHandled)[k]
        IN \A f \in ScalarArgFields : dRemarks[k].Args[f] = LastCarried(doc.Args, f)

RECURSIVE PlainStrings(_)
PlainStrings(args) ==
    IF args = <<>> THEN <<>>
    ELSE LET front == PlainStrings(SubSeq(args, 1, Len(args) - 1))
             last == args[Len(args)].String
         IN IF last # "" THEN Append(front, last) ELSE front

\* C25: within one record the plain-string argument entries accumulate:
\* args.strings is the sequence of the record's plain-string values in
\* argument-list order, duplicates kept.
C25_StringsAccumulate ==
    \A k \in 1..Len(dRemarks) :
        dRemarks[k].Args.Strings = PlainStrings(EmittingDocsUpTo(DocsHandled)[k].Args)

\* a finished parse of a record whose argument list holds two different
\* strings and the first of them again: the list keeps all three in order
C25_Witness ==
    /\ mode = "doc" /\ dpc = "done" /\ Len(dRemarks) = 1
    /\ Len(dStream[1].Args) = 3
    /\ dStream[1].Args[1].String = " with cost "
    /\ dStream[1].Args[2].String = " inlined into "
    /\ dStream[1].Args[3].String = " with cost "
    /\ dRemarks[1].Args.Strings = <<" with cost ", " inlined into ", " with cost ">>

\* the renderings the message is made of: every plain string verbatim,
\* an entry's callee and caller as "<callee> -> <caller>", every typed
\* value as "type: <value>", in argument-list order
RECURSIVE Renderings(_)
Renderings(args) ==
    IF args = <<>> THEN <<>>
    ELSE LET a == args[Len(args)]
         IN Renderings(SubSeq(args, 1, Len(args) - 1))
            \o (IF a.String # "" THEN <<a.String>> ELSE <<>>)
            \o (IF a.Callee # "" /\ a.Caller # ""
                    THEN <<a.Callee \o " -> " \o a.Caller>> ELSE <<>>)
            \o (IF a.Type # "" THEN <<"type: " \o a.Type>> ELSE <<>>)

\* text x is a run of whole parts of the message made of `parts`
ContainsParts(parts, x) ==
    \E i, j \in 1..Len(parts) : i <= j /\ JoinSpace(SubSeq(parts, i, j)) = x

\* C26: the message of a document record is "<pass>: <name>" followed, in
\* argument-list order, by the renderings of the argument fields present;
\* hence whenever the remark's args hold both a callee and a caller the
\* message contains "<callee> -> <caller>".
C26_MessageRendersArgs ==
    \A k \in 1..Len(dRemarks) :
        LET doc == EmittingDocsUpTo(DocsHandled)[k]
            parts == <<doc.Pass \o ": " \o doc.Name>> \o Renderings(doc.Args)
            args == dRemarks[k].Args
        IN /\ dRemarks[k].Message = JoinSpace(parts)
           /\ (args.Callee # "" /\ args.Caller # "")
                 => ContainsParts(parts, args.Callee \o " -> " \o args.Caller)

\* the number a decimal numeral denotes, exactly, as limbs (one limb more
\* than digits)
RECURSIVE ExactLimbs(_)
ExactLimbs(ds) ==
    IF Len(ds) = 0 THEN <<0>>
    ELSE Times10Plus(ExactLimbs(SubSeq(ds, 1, Len(ds) - 1)), ds[Len(ds)])

PadLimbs(x, n) == [i \in 1..n |-> IF i <= Len(x) THEN x[i] ELSE 0]

\* limb sequences x and y denote the same non-negative number
SameNumber(x, y) ==
    LET n == IF Len(x) >= Len(y) THEN Len(x) ELSE Len(y)
    IN PadLimbs(x, n) = PadLimbs(y, n)

\* the int32 d is the number the limbs v denote
Int32Is(d, v) == d >= 0 /\ SameNumber(<<d % LimbBase, d \div LimbBase>>, v)

DedicatedNames ==
    {"DirectCalls", "IndirectCalls", "FlatAddressSpaceAccesses", "AllocasCount",
     "AllocasStaticSize"}

\* C27: the remark of a scanned line "N = v" has kernel_info.metrics[N] = v;
\* when N is one of the five well-known names its dedicated field holds v
\* too, for every decimal numeral v; for any other N all dedicated fields
\* are zero.
C27_MetricFields ==
    LET idx == RemarkLinesUpTo(kPos)
    IN \A k \in 1..Len(idx) :
          LET line == kInput[idx[k]]
              N == line.body.name
              v == ExactLimbs(line.body.digits)
              ki == kRemarks[k].KernelInfo[1]
          IN IsMetricLine(line) =>
                /\ N \in DOMAIN ki.Metrics /\ SameNumber(ki.Metrics[N], v)
                /\ N = "DirectCalls" => Int32Is(ki.DirectCalls, v)
                /\ N = "IndirectCalls" => Int32Is(ki.IndirectCalls, v)
                /\ N = "FlatAddressSpaceAccesses" => Int32Is(ki.FlatAddressSpaceAccesses, v)
                /\ N = "AllocasCount" => Int32Is(ki.AllocasCount, v)
                /\ N = "AllocasStaticSize" => SameNumber(ki.AllocasStaticSize, v)
                /\ N \notin DedicatedNames =>
                      /\ ki.DirectCalls = 0 /\ ki.IndirectCalls = 0
                      /\ ki.FlatAddressSpaceAccesses = 0 /\ ki.AllocasCount = 0
                      /\ ki.AllocasStaticSize = Zero64

\* C28: when the user's arguments contain "Rpass=kernel-info", such an
\* argument is still in the shared build context once every collector has
\* been initialized, in whatever order, so the kernel collector's Collect
\* does not fail with "kernel info pass not enabled".
C28_KernelInfoArgSurvives ==
    (mode = "collect" /\ colInit = Collectors /\ hasKernelInfoPass(osArgs))
        => /\ hasKernelInfoPass(bcArgs)
           /\ kcErr # "not enabled"

\* C30: when the remarks collector's Collect returns, with success or with
\* any error, no file exists at its yamlPath.
C30_RecordFileRemoved ==
    [][ (rpc = "ran" /\ rpc' = "returned") => ~yamlExists' ]_vars

\* both instances have returned from Parse of the same stream
SameStreamParsed ==
    /\ mode = "two"
    /\ cInput[1] = cInput[2]
    /\ \A p \in Parsers : cpc[p] = "done"

\* C29: two parses of the same stream return the same remarks in the same
\* order (the synthetic trailing metric remarks included), every field of
\* every remark being equal.
C29_Deterministic ==
    SameStreamParsed => (cRemarks[1] = cRemarks[2] /\ cStamps[1] = cStamps[2])
====
